---------------------------- MODULE Spec2Model ----------------------------
(***************************************************************************)
(* Model of scripts/benchmark_comparison.py (cmdrun): the loader, the      *)
(* metric extractor, the comparator, the reporters and the driver main().  *)
(*                                                                         *)
(* Numbers are exact rationals <<num, den>> (den > 0, lowest terms): the   *)
(* arithmetic of the script is modelled without floating-point rounding    *)
(* and without the IEEE special values inf and nan.                        *)
(* Python dicts are insertion-ordered: a dict is a sequence of             *)
(* [key, value] pairs with pairwise different keys.                        *)
(***************************************************************************)
EXTENDS Integers, Sequences, FiniteSets, TLC

VARIABLES
    pc,               \* position of the running function
    args,             \* argparse namespace: format, output, fail_on_regression
    current_data,     \* main: current_data (line 193)
    baseline_data,    \* main: baseline_data (line 194)
    current_metrics,  \* main: current_metrics (line 197)
    baseline_metrics, \* main: baseline_metrics (line 198)
    comparison,       \* main: comparison (line 209)
    report,           \* main: report (line 216)
    output_file,      \* content of the file args.output, <<>> while not written
    stdout,           \* sequence of the lines printed so far
    exit_code,        \* process exit status, meaningful once pc = "exited"
    file_status,      \* what main found at the paths args.current, args.baseline
    ns,               \* argument of a direct call to format_duration
    duration          \* its result

vars == <<pc, args, current_data, baseline_data, current_metrics,
          baseline_metrics, comparison, report, output_file, stdout,
          exit_code, file_status, ns, duration>>

---------------------------------------------------------------------------
(* Bounds of the model *)

\* longest `benches` array of an input document
MaxBenches == 2
\* most entries of a metric map handed directly to compare_metrics
MaxMetrics == 2
\* format_duration is tried on every half-nanosecond within MaxDelta
\* nanoseconds of 0 and of each bucket boundary
MaxDelta == 4

(* Program constants *)
MsPerNs == 1000000
Hundred == 100
RegressionThreshold == 10
Thousand == 1000
Million == 1000000
Billion == 1000000000

---------------------------------------------------------------------------
(* Exact rational arithmetic *)

Abs(x) == IF x < 0 THEN -x ELSE x

RECURSIVE GCD(_, _)
GCD(a, b) == IF b = 0 THEN a ELSE GCD(b, a % b)

\* the rational n/d in lowest terms with a positive denominator (d # 0)
Rat(n, d) ==
    LET g == GCD(Abs(n), Abs(d))
        s == IF d < 0 THEN -1 ELSE 1
    IN  <<s * (n \div g), s * (d \div g)>>

Num(x) == x[1]
Den(x) == x[2]
Int2Rat(n) == <<n, 1>>

RSub(x, y) ==
    LET g == GCD(Den(x), Den(y))
    IN  Rat(Num(x) * (Den(y) \div g) - Num(y) * (Den(x) \div g),
            (Den(x) \div g) * Den(y))

RMul(x, y) ==
    LET g1 == GCD(Abs(Num(x)), Den(y))
        g2 == GCD(Abs(Num(y)), Den(x))
    IN  IF Num(x) = 0 \/ Num(y) = 0 THEN <<0, 1>>
        ELSE Rat((Num(x) \div g1) * (Num(y) \div g2),
                 (Den(x) \div g2) * (Den(y) \div g1))

\* x / y for y # 0
RDiv(x, y) ==
    IF Num(y) < 0 THEN RMul(x, <<-Den(y), -Num(y)>>)
    ELSE RMul(x, <<Den(y), Num(y)>>)

RLt(x, y) == Num(x) * Den(y) < Num(y) * Den(x)
RGt(x, y) == RLt(y, x)

---------------------------------------------------------------------------
(* Python dict as an insertion-ordered sequence of [key, value] pairs *)

EmptyDict == <<>>
DictKeys(d) == {d[i].key : i \in DOMAIN d}
DictHas(d, k) == k \in DictKeys(d)
DictGet(d, k) == d[CHOOSE i \in DOMAIN d : d[i].key = k].value
DictSet(d, k, v) ==
    IF DictHas(d, k)
    THEN [i \in DOMAIN d |-> IF d[i].key = k THEN [key |-> k, value |-> v] ELSE d[i]]
    ELSE Append(d, [key |-> k, value |-> v])

\* the Python expression `sub in s` on the strings the model uses
StrContains(sub, s) ==
    CASE sub = "startup_time" ->
            s \in {"startup_time", "my_startup_time_bench",
                   "startup_time_ns", "startup_time_ms"}
      [] sub = "time" ->
            s \in {"startup_time", "my_startup_time_bench",
                   "startup_time_ns", "startup_time_ms"}
      [] sub = "ms" -> s \in {"startup_time_ms"}
      [] OTHER -> FALSE

---------------------------------------------------------------------------
(* Input documents *)

\* one element of `benches`: an object whose keys `name` and `mean` may be
\* missing
Bench(hasName, name, hasMean, mean) ==
    [hasName |-> hasName, name |-> name, hasMean |-> hasMean, mean |-> mean]

Means == {0, 10, 11, 12}
BenchNames == {"startup_time", "my_startup_time_bench", "parse_config"}

\* every shape of entry: name present or not, mean present or not
BenchEntries ==
    {Bench(TRUE, n, TRUE, m) : n \in BenchNames, m \in Means}
    \cup {Bench(TRUE, n, FALSE, 0) : n \in BenchNames}
    \cup {Bench(FALSE, "", TRUE, m) : m \in Means}
    \cup {Bench(FALSE, "", FALSE, 0)}

\* the entries of the files main is run on
MainEntries ==
    {Bench(TRUE, "my_startup_time_bench", TRUE, m) : m \in Means}
    \cup {Bench(TRUE, "startup_time", FALSE, 0),
          Bench(TRUE, "parse_config", TRUE, 10)}

SeqsUpTo(S, n) == UNION {[1..k -> S] : k \in 0..n}

\* parsed JSON documents: an object with or without the key `benches`
DocumentsOver(entries) ==
    {[hasBenches |-> FALSE, benches |-> <<>>]}
    \cup {[hasBenches |-> TRUE, benches |-> b] : b \in SeqsUpTo(entries, MaxBenches)}

NoData == [hasBenches |-> FALSE, benches |-> <<>>]

---------------------------------------------------------------------------
(* extract_performance_metrics *)

\* mutant: startup_time_ms derived with the divisor of microseconds
ExtractBench_WrongDivisor(bench, metrics) ==
    LET name == IF bench.hasName THEN bench.name ELSE ""
    IN  IF StrContains("startup_time", name) /\ bench.hasMean
        THEN DictSet(DictSet(metrics, "startup_time_ns", Int2Rat(bench.mean)),
                     "startup_time_ms", RDiv(Int2Rat(bench.mean), Int2Rat(Thousand)))
        ELSE metrics

\* body of the for loop, lines 33-38
ExtractBench(bench, metrics) ==
    LET name == IF bench.hasName THEN bench.name ELSE ""
    IN  IF StrContains("startup_time", name) /\ bench.hasMean
        THEN DictSet(DictSet(metrics, "startup_time_ns", Int2Rat(bench.mean)),
                     "startup_time_ms", RDiv(Int2Rat(bench.mean), Int2Rat(MsPerNs)))
        ELSE metrics

RECURSIVE ExtractLoop(_, _)
ExtractLoop(benches, metrics) ==
    IF benches = <<>> THEN metrics
    ELSE ExtractLoop(Tail(benches), ExtractBench(Head(benches), metrics))

\* mutant: the function returns from inside the loop, after the first entry
extract_performance_metrics_FirstOnly(data) ==
    IF data.hasBenches /\ data.benches # <<>>
    THEN ExtractBench(Head(data.benches), EmptyDict)
    ELSE EmptyDict

extract_performance_metrics(data) ==
    IF data.hasBenches THEN ExtractLoop(data.benches, EmptyDict) ELSE EmptyDict

---------------------------------------------------------------------------
(* compare_metrics *)

\* mutant: the regression test written as >= 10
ComparisonRecord_InclusiveThreshold(current_value, baseline_value) ==
    LET change_percent ==
            RMul(RDiv(RSub(current_value, baseline_value), baseline_value),
                 Int2Rat(Hundred))
    IN  [current        |-> current_value,
         baseline       |-> baseline_value,
         change_percent |-> change_percent,
         improved       |-> RLt(change_percent, Int2Rat(0)),
         regression     |-> ~RLt(change_percent, Int2Rat(RegressionThreshold))]

\* mutant: improved computed as if a higher value were better
ComparisonRecord_HigherIsBetter(current_value, baseline_value) ==
    LET change_percent ==
            RMul(RDiv(RSub(current_value, baseline_value), baseline_value),
                 Int2Rat(Hundred))
    IN  [current        |-> current_value,
         baseline       |-> baseline_value,
         change_percent |-> change_percent,
         improved       |-> RGt(change_percent, Int2Rat(0)),
         regression     |-> RGt(change_percent, Int2Rat(RegressionThreshold))]

\* lines 51-58: the record built for one metric
ComparisonRecord(current_value, baseline_value) ==
    LET change_percent ==
            RMul(RDiv(RSub(current_value, baseline_value), baseline_value),
                 Int2Rat(Hundred))
    IN  [current        |-> current_value,
         baseline       |-> baseline_value,
         change_percent |-> change_percent,
         improved       |-> RLt(change_percent, Int2Rat(0)),
         regression     |-> RGt(change_percent, Int2Rat(RegressionThreshold))]

\* mutant: the guard written as >= 0
BaselineUsable_NonNegative(baseline_value) == ~RLt(baseline_value, Int2Rat(0))

\* line 50: the guard on the baseline value
BaselineUsable(baseline_value) == RGt(baseline_value, Int2Rat(0))

\* body of the for loop, lines 48-58
CompareItem(item, baseline, cmp) ==
    IF DictHas(baseline, item.key)
    THEN LET baseline_value == DictGet(baseline, item.key)
         IN  IF BaselineUsable(baseline_value)
             THEN DictSet(cmp, item.key, ComparisonRecord(item.value, baseline_value))
             ELSE cmp
    ELSE cmp

RECURSIVE CompareLoop(_, _, _)
CompareLoop(items, baseline, cmp) ==
    IF items = <<>> THEN cmp
    ELSE CompareLoop(Tail(items), baseline, CompareItem(Head(items), baseline, cmp))

compare_metrics(current, baseline) == CompareLoop(current, baseline, EmptyDict)

---------------------------------------------------------------------------
(* format_duration and the reporters *)

\* the text f"{value:.2f}{suffix}": the value, the number of decimals it is
\* rendered with and the unit suffix (the digits themselves are not expanded)
Fixed2(value, suffix) == [value |-> value, decimals |-> 2, suffix |-> suffix]

\* f"{change_percent:+.1f}%"
Signed1(value) == [value |-> value, decimals |-> 1, suffix |-> "%"]

\* mutant: the bucket tests written as <=
format_duration_InclusiveAbove(x) ==
    IF ~RGt(x, Int2Rat(Thousand)) THEN Fixed2(x, "ns")
    ELSE IF ~RGt(x, Int2Rat(Million)) THEN Fixed2(RDiv(x, Int2Rat(Thousand)), "us")
    ELSE IF ~RGt(x, Int2Rat(Billion)) THEN Fixed2(RDiv(x, Int2Rat(Million)), "ms")
    ELSE Fixed2(RDiv(x, Int2Rat(Billion)), "s")

format_duration(x) ==
    IF RLt(x, Int2Rat(Thousand)) THEN Fixed2(x, "ns")
    ELSE IF RLt(x, Int2Rat(Million)) THEN Fixed2(RDiv(x, Int2Rat(Thousand)), "us")
    ELSE IF RLt(x, Int2Rat(Billion)) THEN Fixed2(RDiv(x, Int2Rat(Million)), "ms")
    ELSE Fixed2(RDiv(x, Int2Rat(Billion)), "s")

\* lines 100-110
FormatValue(metric, value) ==
    IF StrContains("time", metric)
    THEN IF StrContains("ms", metric) THEN Fixed2(value, "ms")
         ELSE format_duration(value)
    ELSE Fixed2(value, "")

\* mutant: the elif branch for improved records is missing
RowStatus_NoImproved(data) ==
    IF data.regression THEN "Regression" ELSE "Similar"

\* lines 112-118
RowStatus(data) ==
    IF data.regression THEN "Regression"
    ELSE IF data.improved THEN "Improved"
    ELSE "Similar"

\* lines 96-122: one table row
MarkdownRow(item) ==
    [metric   |-> item.key,
     current  |-> FormatValue(item.key, item.value.current),
     baseline |-> FormatValue(item.key, item.value.baseline),
     change   |-> Signed1(item.value.change_percent),
     status   |-> RowStatus(item.value)]

\* [m for m, d in comparison.items() if d[flag]], flag = 'regression'
RECURSIVE Regressions(_)
Regressions(cmp) ==
    IF cmp = <<>> THEN <<>>
    ELSE (IF Head(cmp).value.regression THEN <<Head(cmp).key>> ELSE <<>>)
         \o Regressions(Tail(cmp))

\* [m for m, d in comparison.items() if d['improved']]
RECURSIVE Improvements(_)
Improvements(cmp) ==
    IF cmp = <<>> THEN <<>>
    ELSE (IF Head(cmp).value.improved THEN <<Head(cmp).key>> ELSE <<>>)
         \o Improvements(Tail(cmp))

\* lines 134-146: "- {metric}: {change:+.1f}%" for each listed metric
SummaryList(cmp, metrics) ==
    [i \in DOMAIN metrics |->
        [metric |-> metrics[i],
         change |-> Signed1(DictGet(cmp, metrics[i]).change_percent)]]

\* line 148
StableMetrics(cmp) == Len(cmp) - Len(Regressions(cmp)) - Len(Improvements(cmp))

\* the generation timestamp (line 87) is left out of the report
generate_markdown_report(cmp) ==
    [format       |-> "markdown",
     rows         |-> [i \in DOMAIN cmp |-> MarkdownRow(cmp[i])],
     regressions  |-> SummaryList(cmp, Regressions(cmp)),
     improvements |-> SummaryList(cmp, Improvements(cmp)),
     stable       |-> StableMetrics(cmp),
     stable_line  |-> StableMetrics(cmp) > 0]

\* line 168
StatusIcon(data) ==
    IF data.regression THEN "red" ELSE IF data.improved THEN "green" ELSE "yellow"

generate_text_report(cmp) ==
    [format |-> "text",
     blocks |-> [i \in DOMAIN cmp |->
                    [icon     |-> StatusIcon(cmp[i].value),
                     metric   |-> cmp[i].key,
                     current  |-> Fixed2(cmp[i].value.current, ""),
                     baseline |-> Fixed2(cmp[i].value.baseline, ""),
                     change   |-> Signed1(cmp[i].value.change_percent)]]]

generate_report(cmp, output_format) ==
    IF output_format = "markdown" THEN generate_markdown_report(cmp)
    ELSE IF output_format = "json" THEN [format |-> "json", body |-> cmp]
    ELSE generate_text_report(cmp)

NoReport == [format |-> "none"]

---------------------------------------------------------------------------
(* Values of the variables a specification does not use *)

NoArgs == [format |-> "markdown", output |-> FALSE, fail_on_regression |-> FALSE]
NoStatus == [current |-> "unread", baseline |-> "unread"]
NoDuration == Fixed2(Int2Rat(0), "")

---------------------------------------------------------------------------
(* SpecExtract: a call extract_performance_metrics(current_data) *)

InitExtract ==
    /\ pc = "extract"
    /\ current_data \in DocumentsOver(BenchEntries)
    /\ args = NoArgs
    /\ baseline_data = NoData
    /\ current_metrics = EmptyDict
    /\ baseline_metrics = EmptyDict
    /\ comparison = EmptyDict
    /\ report = NoReport
    /\ output_file = NoReport
    /\ stdout = <<>>
    /\ exit_code = 0
    /\ file_status = NoStatus
    /\ ns = Int2Rat(0)
    /\ duration = NoDuration

CallExtract ==
    /\ pc = "extract"
    /\ current_metrics' = extract_performance_metrics(current_data)
    /\ pc' = "returned"
    /\ UNCHANGED <<args, current_data, baseline_data, baseline_metrics, comparison,
                   report, output_file, stdout, exit_code, file_status, ns, duration>>

NextExtract == CallExtract

SpecExtract == InitExtract /\ [][NextExtract]_vars

---------------------------------------------------------------------------
(* SpecCompare: compare_metrics(current_metrics, baseline_metrics) on any  *)
(* two metric maps, then generate_markdown_report on the result            *)

MetricNames == {"startup_time_ns", "startup_time_ms", "throughput"}
\* baselines of either sign and zero; current values below, at, exactly 10%
\* above and more than 10% above a baseline
BaselineValues == {-10, 0, 10, 11}
CurrentValues == {0, 10, 11, 12}

MetricMaps(values) ==
    {m \in SeqsUpTo([key : MetricNames, value : {Int2Rat(v) : v \in values}],
                    MaxMetrics) :
        \A i, j \in DOMAIN m : i # j => m[i].key # m[j].key}

InitCompare ==
    /\ pc = "compare"
    /\ current_metrics \in MetricMaps(CurrentValues)
    /\ baseline_metrics \in MetricMaps(BaselineValues)
    /\ args = NoArgs
    /\ current_data = NoData
    /\ baseline_data = NoData
    /\ comparison = EmptyDict
    /\ report = NoReport
    /\ output_file = NoReport
    /\ stdout = <<>>
    /\ exit_code = 0
    /\ file_status = NoStatus
    /\ ns = Int2Rat(0)
    /\ duration = NoDuration

CallCompare ==
    /\ pc = "compare"
    /\ comparison' = compare_metrics(current_metrics, baseline_metrics)
    /\ pc' = "render"
    /\ UNCHANGED <<args, current_data, baseline_data, current_metrics,
                   baseline_metrics, report, output_file, stdout, exit_code,
                   file_status, ns, duration>>

CallMarkdownReport ==
    /\ pc = "render"
    /\ report' = generate_markdown_report(comparison)
    /\ pc' = "returned"
    /\ UNCHANGED <<args, current_data, baseline_data, current_metrics,
                   baseline_metrics, comparison, output_file, stdout, exit_code,
                   file_status, ns, duration>>

NextCompare == CallCompare \/ CallMarkdownReport

SpecCompare == InitCompare /\ [][NextCompare]_vars

---------------------------------------------------------------------------
(* SpecFormat: a call format_duration(ns) *)

Boundaries == {0, Thousand, Million, Billion}

\* every multiple of half a nanosecond within MaxDelta of a boundary
DurationInputs ==
    {Rat(2 * b + k, 2) : b \in Boundaries, k \in (-2 * MaxDelta)..(2 * MaxDelta)}

InitFormat ==
    /\ pc = "format"
    /\ ns \in DurationInputs
    /\ duration = NoDuration
    /\ args = NoArgs
    /\ current_data = NoData
    /\ baseline_data = NoData
    /\ current_metrics = EmptyDict
    /\ baseline_metrics = EmptyDict
    /\ comparison = EmptyDict
    /\ report = NoReport
    /\ output_file = NoReport
    /\ stdout = <<>>
    /\ exit_code = 0
    /\ file_status = NoStatus

CallFormat ==
    /\ pc = "format"
    /\ duration' = format_duration(ns)
    /\ pc' = "returned"
    /\ UNCHANGED <<args, current_data, baseline_data, current_metrics,
                   baseline_metrics, comparison, report, output_file, stdout,
                   exit_code, file_status, ns>>

NextFormat == CallFormat

SpecFormat == InitFormat /\ [][NextFormat]_vars

---------------------------------------------------------------------------
(* Spec: a run of main() *)

Formats == {"markdown", "json", "text"}

\* lines 181-190: the parsed command line (output: whether --output is given)
ArgSets == [format : Formats, output : BOOLEAN, fail_on_regression : BOOLEAN]

\* what open()/json.load find at a path
InputFiles ==
    {[status |-> "missing", data |-> NoData],
     [status |-> "malformed", data |-> NoData]}
    \cup {[status |-> "ok", data |-> d] : d \in DocumentsOver(MainEntries)}

\* one printed line: its text and the count it carries, if any
Line(msg, n) == [msg |-> msg, n |-> n]

\* lines 14-24: the document, or the diagnostic printed before sys.exit(1)
load_benchmark_data(file) ==
    IF file.status = "missing"
    THEN [ok |-> FALSE, data |-> NoData, line |-> Line("Benchmark file not found", 0)]
    ELSE IF file.status = "malformed"
    THEN [ok |-> FALSE, data |-> NoData, line |-> Line("Invalid JSON", 0)]
    ELSE [ok |-> TRUE, data |-> file.data, line |-> Line("", 0)]

Init ==
    /\ pc = "load_current"
    /\ args \in ArgSets
    /\ current_data = NoData
    /\ baseline_data = NoData
    /\ current_metrics = EmptyDict
    /\ baseline_metrics = EmptyDict
    /\ comparison = EmptyDict
    /\ report = NoReport
    /\ output_file = NoReport
    /\ stdout = <<>>
    /\ exit_code = 0
    /\ file_status = NoStatus
    /\ ns = Int2Rat(0)
    /\ duration = NoDuration

\* sys.exit(code) after printing `line`
Exit(line, code) ==
    /\ stdout' = Append(stdout, line)
    /\ exit_code' = code
    /\ pc' = "exited"

\* line 193
LoadCurrent ==
    /\ pc = "load_current"
    /\ \E file \in InputFiles :
        LET r == load_benchmark_data(file)
        IN  /\ file_status' = [file_status EXCEPT !.current = file.status]
            /\ IF r.ok
               THEN /\ current_data' = r.data
                    /\ pc' = "load_baseline"
                    /\ UNCHANGED <<stdout, exit_code>>
               ELSE /\ Exit(r.line, 1)
                    /\ UNCHANGED current_data
    /\ UNCHANGED <<args, baseline_data, current_metrics, baseline_metrics,
                   comparison, report, output_file, ns, duration>>

\* line 194
LoadBaseline ==
    /\ pc = "load_baseline"
    /\ \E file \in InputFiles :
        LET r == load_benchmark_data(file)
        IN  /\ file_status' = [file_status EXCEPT !.baseline = file.status]
            /\ IF r.ok
               THEN /\ baseline_data' = r.data
                    /\ pc' = "extract"
                    /\ UNCHANGED <<stdout, exit_code>>
               ELSE /\ Exit(r.line, 1)
                    /\ UNCHANGED baseline_data
    /\ UNCHANGED <<args, current_data, current_metrics, baseline_metrics,
                   comparison, report, output_file, ns, duration>>

\* lines 197-198; the two documents are not read again and are released here
ExtractMetrics ==
    /\ pc = "extract"
    /\ current_metrics' = extract_performance_metrics(current_data)
    /\ baseline_metrics' = extract_performance_metrics(baseline_data)
    /\ current_data' = NoData
    /\ baseline_data' = NoData
    /\ pc' = "check_current"
    /\ UNCHANGED <<args, comparison, report, output_file, stdout, exit_code,
                   file_status, ns, duration>>

\* lines 200-202
CheckCurrentMetrics ==
    /\ pc = "check_current"
    /\ IF current_metrics = EmptyDict
       THEN Exit(Line("No performance metrics found in current data", 0), 1)
       ELSE pc' = "check_baseline" /\ UNCHANGED <<stdout, exit_code>>
    /\ UNCHANGED <<args, current_data, baseline_data, current_metrics,
                   baseline_metrics, comparison, report, output_file,
                   file_status, ns, duration>>

\* lines 204-206
CheckBaselineMetrics ==
    /\ pc = "check_baseline"
    /\ IF baseline_metrics = EmptyDict
       THEN Exit(Line("No performance metrics found in baseline data", 0), 1)
       ELSE pc' = "compare" /\ UNCHANGED <<stdout, exit_code>>
    /\ UNCHANGED <<args, current_data, baseline_data, current_metrics,
                   baseline_metrics, comparison, report, output_file,
                   file_status, ns, duration>>

\* lines 209-213
CompareMetrics ==
    /\ pc = "compare"
    /\ comparison' = compare_metrics(current_metrics, baseline_metrics)
    /\ IF comparison' = EmptyDict
       THEN Exit(Line("No comparable metrics found", 0), 1)
       ELSE pc' = "generate" /\ UNCHANGED <<stdout, exit_code>>
    /\ UNCHANGED <<args, current_data, baseline_data, current_metrics,
                   baseline_metrics, report, output_file, file_status, ns, duration>>

\* line 216
GenerateReport ==
    /\ pc = "generate"
    /\ report' = generate_report(comparison, args.format)
    /\ pc' = "output"
    /\ UNCHANGED <<args, current_data, baseline_data, current_metrics,
                   baseline_metrics, comparison, output_file, stdout, exit_code,
                   file_status, ns, duration>>

\* mutant: the regression check runs before the report is written
OutputReport_RegressionsFirst ==
    /\ pc = "output"
    /\ IF args.fail_on_regression /\ Regressions(comparison) # <<>>
       THEN /\ Exit(Line("performance regression(s) detected!",
                         Len(Regressions(comparison))), 1)
            /\ UNCHANGED output_file
       ELSE /\ IF args.output
               THEN /\ output_file' = report
                    /\ stdout' = Append(stdout, Line("Report written to", 0))
               ELSE /\ stdout' = Append(stdout, Line("report", 0))
                    /\ UNCHANGED output_file
            /\ pc' = "check_regressions"
            /\ UNCHANGED exit_code
    /\ UNCHANGED <<args, current_data, baseline_data, current_metrics,
                   baseline_metrics, comparison, report,
                   file_status, ns, duration>>

\* lines 219-224
OutputReport ==
    /\ pc = "output"
    /\ IF args.output
       THEN /\ output_file' = report
            /\ stdout' = Append(stdout, Line("Report written to", 0))
       ELSE /\ stdout' = Append(stdout, Line("report", 0))
            /\ UNCHANGED output_file
    /\ pc' = "check_regressions"
    /\ UNCHANGED <<args, current_data, baseline_data, current_metrics,
                   baseline_metrics, comparison, report, exit_code,
                   file_status, ns, duration>>

\* mutant: the check ignores args.fail_on_regression
CheckRegressions_NoFlag ==
    /\ pc = "check_regressions"
    /\ IF Regressions(comparison) # <<>>
       THEN Exit(Line("performance regression(s) detected!",
                      Len(Regressions(comparison))), 1)
       ELSE pc' = "complete" /\ UNCHANGED <<stdout, exit_code>>
    /\ UNCHANGED <<args, current_data, baseline_data, current_metrics,
                   baseline_metrics, comparison, report, output_file,
                   file_status, ns, duration>>

\* lines 227-231
CheckRegressions ==
    /\ pc = "check_regressions"
    /\ IF args.fail_on_regression /\ Regressions(comparison) # <<>>
       THEN Exit(Line("performance regression(s) detected!",
                      Len(Regressions(comparison))), 1)
       ELSE pc' = "complete" /\ UNCHANGED <<stdout, exit_code>>
    /\ UNCHANGED <<args, current_data, baseline_data, current_metrics,
                   baseline_metrics, comparison, report, output_file,
                   file_status, ns, duration>>

\* mutant: the confirmation is printed in the else branch of `if args.output`
Complete_OnlyToStdout ==
    /\ pc = "complete"
    /\ IF args.output
       THEN pc' = "exited" /\ exit_code' = 0 /\ UNCHANGED stdout
       ELSE Exit(Line("Benchmark comparison complete", 0), 0)
    /\ UNCHANGED <<args, current_data, baseline_data, current_metrics,
                   baseline_metrics, comparison, report, output_file,
                   file_status, ns, duration>>

\* line 233, then the interpreter ends the process with status 0
Complete ==
    /\ pc = "complete"
    /\ Exit(Line("Benchmark comparison complete", 0), 0)
    /\ UNCHANGED <<args, current_data, baseline_data, current_metrics,
                   baseline_metrics, comparison, report, output_file,
                   file_status, ns, duration>>

Next ==
    \/ LoadCurrent
    \/ LoadBaseline
    \/ ExtractMetrics
    \/ CheckCurrentMetrics
    \/ CheckBaselineMetrics
    \/ CompareMetrics
    \/ GenerateReport
    \/ OutputReport
    \/ CheckRegressions
    \/ Complete

Spec == Init /\ [][Next]_vars

---------------------------------------------------------------------------
(* Properties of compare_metrics and generate_markdown_report, checked     *)
(* under SpecCompare                                                       *)

Compared == pc \in {"render", "returned"}

CommonMetrics == DictKeys(current_metrics) \cap DictKeys(baseline_metrics)

\* cp = (c - b) / b * 100 for b # 0, by cross-multiplication on integers
IsChangePercent(cp, c, b) ==
    Num(cp) * Den(c) * Num(b)
        = Hundred * (Num(c) * Den(b) - Num(b) * Den(c)) * Den(cp)

Negative(x) == Num(x) < 0
AboveThreshold(x) == Num(x) > RegressionThreshold * Den(x)

\* the record of metric m is the one the contract describes
RecordAsSpecified(m) ==
    /\ DictHas(comparison, m)
    /\ LET rec == DictGet(comparison, m)
           c == DictGet(current_metrics, m)
           b == DictGet(baseline_metrics, m)
       IN  /\ rec.current = c
           /\ rec.baseline = b
           /\ IsChangePercent(rec.change_percent, c, b)
           /\ rec.improved <=> Negative(rec.change_percent)
           /\ rec.regression <=> AboveThreshold(rec.change_percent)

\* C1 as stated: every metric of both maps whose baseline is non-zero, of
\* either sign, gets a record with change_percent = (c-b)/b*100, improved
\* iff change_percent < 0 and regression iff change_percent > 10.
C1_NonZeroBaseline ==
    Compared =>
        \A m \in CommonMetrics :
            Num(DictGet(baseline_metrics, m)) # 0 => RecordAsSpecified(m)

\* C1 amended: every metric of both maps whose baseline is strictly positive
\* gets such a record; a metric whose baseline is negative gets none.
C1_PositiveBaseline ==
    Compared =>
        \A m \in CommonMetrics :
            /\ Num(DictGet(baseline_metrics, m)) > 0 => RecordAsSpecified(m)
            /\ Num(DictGet(baseline_metrics, m)) < 0 => ~DictHas(comparison, m)

\* a regression, a record at exactly +10% or an improvement has been recorded
C1_Witness ==
    /\ Compared
    /\ \E i \in DOMAIN comparison :
        /\ comparison[i].value.change_percent = Int2Rat(RegressionThreshold)
        /\ ~comparison[i].value.regression
    /\ \E i \in DOMAIN comparison : comparison[i].value.regression

\* C2: every key of the result is a key of both maps and has a baseline
\* different from 0; a metric of one side only, or with baseline 0, is absent.
C2_ResultKeys ==
    Compared =>
        /\ \A m \in DictKeys(comparison) :
            /\ m \in CommonMetrics
            /\ Num(DictGet(baseline_metrics, m)) # 0
        /\ \A m \in MetricNames :
            (\/ m \notin CommonMetrics
             \/ Num(DictGet(baseline_metrics, m)) = 0) => ~DictHas(comparison, m)

\* a result with a record, next to a metric dropped for its zero baseline or
\* a metric that only the current map has
C2_Witness ==
    /\ Compared
    /\ comparison # EmptyDict
    /\ \/ \E m \in CommonMetrics : Num(DictGet(baseline_metrics, m)) = 0
       \/ \E m \in DictKeys(current_metrics) : m \notin DictKeys(baseline_metrics)

\* C6: in every record improved and regression are never both true; improved
\* implies change_percent < 0 and regression implies change_percent > 10.
C6_Exclusive ==
    Compared =>
        \A i \in DOMAIN comparison :
            LET rec == comparison[i].value
            IN  /\ ~(rec.improved /\ rec.regression)
                /\ rec.improved => Negative(rec.change_percent)
                /\ rec.regression => AboveThreshold(rec.change_percent)

\* a result holding an improved record and a regressed record
C6_Witness ==
    /\ Compared
    /\ \E i \in DOMAIN comparison : comparison[i].value.improved
    /\ \E i \in DOMAIN comparison : comparison[i].value.regression

RowsWith(status) ==
    {i \in DOMAIN report.rows : report.rows[i].status = status}

ListedMetrics(list) == {list[i].metric : i \in DOMAIN list}

---------------------------------------------------------------------------
(* Property of format_duration, checked under SpecFormat *)

AtLeast(x, n) == Num(x) >= n * Den(x)
Below(x, n) == Num(x) < n * Den(x)

\* the result is x / divisor rendered with two decimals and the suffix unit
RenderedAs(x, divisor, unit) ==
    /\ duration.suffix = unit
    /\ duration.decimals = 2
    /\ RMul(duration.value, Int2Rat(divisor)) = x

\* C8: below 1000 the value is rendered in ns; in [1000, 1,000,000) it is
\* divided by 1000 and rendered in microseconds; in [1,000,000, 1,000,000,000)
\* it is divided by 1,000,000 and rendered in ms; from 1,000,000,000 on it is
\* divided by 1,000,000,000 and rendered in s. The boundary values fall in the
\* larger unit.
C8_Buckets ==
    (pc = "returned") =>
        /\ Below(ns, Thousand) => RenderedAs(ns, 1, "ns")
        /\ (AtLeast(ns, Thousand) /\ Below(ns, Million))
                => RenderedAs(ns, Thousand, "us")
        /\ (AtLeast(ns, Million) /\ Below(ns, Billion))
                => RenderedAs(ns, Million, "ms")
        /\ AtLeast(ns, Billion) => RenderedAs(ns, Billion, "s")

\* exactly 1,000,000 ns has been rendered, as 1 ms
C8_Witness ==
    /\ pc = "returned"
    /\ ns = Int2Rat(Million)
    /\ duration = Fixed2(Int2Rat(1), "ms")

---------------------------------------------------------------------------
(* Property of extract_performance_metrics, checked under SpecExtract *)

\* the document with its entries at the positions p gives them
Permuted(data, p) ==
    [data EXCEPT !.benches = [i \in DOMAIN data.benches |-> data.benches[p[i]]]]

\* positions of the entries that write the two metrics
Recognized(data) ==
    {i \in DOMAIN data.benches :
        /\ data.benches[i].hasName
        /\ StrContains("startup_time", data.benches[i].name)
        /\ data.benches[i].hasMean}

MetricsOfMean(mean) ==
    <<[key |-> "startup_time_ns", value |-> Int2Rat(mean)],
      [key |-> "startup_time_ms", value |-> Rat(mean, MsPerNs)]>>

\* C9 as stated: the extracted map is the same for every permutation of the
\* entries of `benches`, also when recognized entries carry different means.
C9_OrderIndependent ==
    (pc = "returned") =>
        \A p \in Permutations(DOMAIN current_data.benches) :
            extract_performance_metrics(Permuted(current_data, p)) = current_metrics

\* C9 amended: the extracted map is the one of the last recognized entry that
\* has a mean (empty when there is none); it is the same for every permutation
\* of the entries provided the recognized entries with a mean all carry the
\* same mean.
C9_LastWins ==
    (pc = "returned") =>
        LET rec == Recognized(current_data)
        IN  /\ rec = {} => current_metrics = EmptyDict
            /\ rec # {} =>
                 current_metrics
                    = MetricsOfMean(current_data.benches[
                          CHOOSE i \in rec : \A j \in rec : j <= i].mean)
            /\ (\A i, j \in rec :
                    current_data.benches[i].mean = current_data.benches[j].mean)
                 => \A p \in Permutations(DOMAIN current_data.benches) :
                        extract_performance_metrics(Permuted(current_data, p))
                            = current_metrics

\* a document whose first entry is not recognized and whose second is has been
\* extracted
C9_Witness ==
    /\ pc = "returned"
    /\ Len(current_data.benches) >= 2
    /\ 1 \notin Recognized(current_data)
    /\ 2 \in Recognized(current_data)
    /\ current_metrics # EmptyDict

---------------------------------------------------------------------------
(* Properties of main, checked under Spec *)

Exited == pc = "exited"
Printed(msg) == \E i \in DOMAIN stdout : stdout[i].msg = msg
LastLine == stdout[Len(stdout)]

\* the report has reached the --output file or standard output
ReportProduced == output_file # NoReport \/ Printed("report")

FileFailed ==
    \/ file_status.current \in {"missing", "malformed"}
    \/ file_status.baseline \in {"missing", "malformed"}
FilesLoaded == file_status.current = "ok" /\ file_status.baseline = "ok"

\* the conditions under which the contract asks for exit status 1, stated on
\* what the run was given
ExitOneCause ==
    \/ FileFailed
    \/ /\ FilesLoaded
       /\ \/ current_metrics = EmptyDict
          \/ baseline_metrics = EmptyDict
          \/ compare_metrics(current_metrics, baseline_metrics) = EmptyDict
          \/ /\ args.fail_on_regression
             /\ \E i \in DOMAIN compare_metrics(current_metrics, baseline_metrics) :
                    compare_metrics(current_metrics, baseline_metrics)[i].value.regression

C4_NoReportOnFailure ==
    (Exited /\ exit_code = 1) => ~ReportProduced

RegressionExit ==
    /\ Exited
    /\ exit_code = 1
    /\ LastLine.msg = "performance regression(s) detected!"

\* C4 amended: when main exits with status 1 for a missing or malformed file,
\* empty metrics or an empty comparison, no report has been written or
\* printed; when it exits with status 1 for detected regressions, the complete
\* report has already been written or printed.
C4_ReportOnlyOnRegressionExit ==
    (Exited /\ exit_code = 1) =>
        /\ ReportProduced <=> RegressionExit
        /\ ReportProduced => report = generate_report(comparison, args.format)
        /\ (ReportProduced /\ args.output) => output_file = report

\* a run has failed on regressions after writing its report to the file
C4_Witness ==
    /\ RegressionExit
    /\ output_file # NoReport

\* C5 as stated: a run that has written the report ends with the completion
\* confirmation on standard output.
C5_AlwaysConfirmed ==
    (Exited /\ ReportProduced) => LastLine.msg = "Benchmark comparison complete"

\* C5 amended: once the report is written, the run goes on to the regression
\* check and ends either with the completion confirmation and status 0, or,
\* when --fail-on-regression is set and a record has regression true, with the
\* regression count and status 1 and without the confirmation.
C5_ConfirmedUnlessRegression ==
    ReportProduced =>
        \/ pc \in {"check_regressions", "complete"}
        \/ /\ Exited
           /\ IF args.fail_on_regression /\ Regressions(comparison) # <<>>
              THEN /\ RegressionExit
                   /\ ~Printed("Benchmark comparison complete")
              ELSE /\ exit_code = 0
                   /\ LastLine.msg = "Benchmark comparison complete"

\* a run with --output has written the file and printed the confirmation
C5_Witness ==
    /\ Exited
    /\ output_file # NoReport
    /\ LastLine.msg = "Benchmark comparison complete"

\* an extracted map is empty or holds startup_time_ns and startup_time_ms of
\* one mean
NoneOrBothMetrics(metrics) ==
    \/ metrics = EmptyDict
    \/ /\ Len(metrics) = 2
       /\ metrics[1].key = "startup_time_ns"
       /\ metrics[2].key = "startup_time_ms"
       /\ RMul(metrics[2].value, Int2Rat(MsPerNs)) = metrics[1].value

\* C10: in a run of main each extracted map is empty or holds exactly
\* startup_time_ns and startup_time_ms of the same mean; the comparison holds
\* no record or both, with the same change_percent and classification; the
\* number of regressions the driver counts is 0 or 2.
C10_RecordsInPairs ==
    /\ NoneOrBothMetrics(current_metrics)
    /\ NoneOrBothMetrics(baseline_metrics)
    /\ \/ comparison = EmptyDict
       \/ /\ DictKeys(comparison) = {"startup_time_ns", "startup_time_ms"}
          /\ Len(comparison) = 2
          /\ comparison[1].value.change_percent = comparison[2].value.change_percent
          /\ comparison[1].value.improved = comparison[2].value.improved
          /\ comparison[1].value.regression = comparison[2].value.regression
    /\ Len(Regressions(comparison)) \in {0, 2}
    /\ \A i \in DOMAIN stdout :
        stdout[i].msg = "performance regression(s) detected!" => stdout[i].n = 2

\* the driver has counted and reported two regressions
C10_Witness ==
    /\ RegressionExit
    /\ LastLine.n = 2
    /\ Len(comparison) = 2

=============================================================================
